---------------------------- MODULE Spec2Model ----------------------------
(***************************************************************************)
(* A model of two parts of RedditVideoMakerBot:                            *)
(*                                                                         *)
(*   - video_creation/background.py: get_start_and_end_times, the          *)
(*     selector of a (start, end) window in a background source, and       *)
(*     chop_background, which probes the sources, selects windows and      *)
(*     extracts them with fallbacks;                                       *)
(*   - TTS/engine_wrapper.py: TTSEngine.run, add_periods, call_tts and     *)
(*     split_post, the synthesis loop with its running total and its       *)
(*     rollback.                                                           *)
(*                                                                         *)
(* Durations are whole seconds, except those ffprobe prints for the        *)
(* sources, in half seconds.  Each part has a specification of its own;    *)
(* the variables of the other parts stay at their idle values:             *)
(*   SpecWindow     one call of get_start_and_end_times;                   *)
(*   SpecChop       one call of chop_background;                           *)
(*   Spec           TTSEngine.run over the comments of a thread;           *)
(*   SpecStory      TTSEngine.run in story mode;                           *)
(*   SpecCallTts    one call of call_tts, for every measurement;           *)
(*   SpecSplit      run over one long comment, with the files split_post   *)
(*                  writes, lists, concatenates and deletes;               *)
(*   SpecSplitText  the splitting of a text into chunks by split_post;     *)
(*   SpecNormalize  add_periods applied twice to a comment body.           *)
(***************************************************************************)
EXTENDS Integers, Sequences, FiniteSets

VARIABLES
    \* get_start_and_end_times, called on its own
    sel_pc,             \* "off" | "call" | "returned"
    sel_video_length,   \* the argument video_length, after int()
    sel_length_of_clip, \* the argument length_of_clip, after int()
    sel_result          \* the outcome: a window, or the exception raised

sel_vars == <<sel_pc, sel_video_length, sel_length_of_clip, sel_result>>

VARIABLES
    \* TTSEngine
    tts_pc,           \* "off" | "run" | "raised" | "loop" | "split" | "story" |
                      \* "story_end" | "done" | "call_tts" | "called"
    reddit_object,    \* the title, the comments and the post: the texts, which
                      \* add_periods rewrites, and what their clips measure
    max_length,       \* self.max_length
    length,           \* self.length, the running total
    last_clip_length, \* self.last_clip_length
    it,               \* the index the for loop of run yields next
    idx,              \* the variable idx of run
    idy,              \* the index of the chunk split_post handles next
    calls,            \* history: the calls of call_tts so far
    rollback,         \* history: the rollback of run, once it has happened
    result,           \* the tuple run returned
    settings,         \* settings.config["settings"]: what run and split_post read
    env,              \* how os.unlink and ffmpeg's concat behave in this run
    files,            \* the files under self.path, each with its audio segments
    split_files,      \* the list split_files of split_post
    list_txt          \* the lines of list.txt

tts_vars == <<tts_pc, reddit_object, max_length, length, last_clip_length,
              it, idx, idy, calls, rollback, result, settings, env, files,
              split_files, list_txt>>

VARIABLES
    \* chop_background
    chop_pc,         \* where chop_background is, "off" when it is not running
    volume,          \* the setting background_audio_volume
    chop_video_length, \* the argument video_length of chop_background
    probed_duration, \* audio_duration, then video_duration, in half seconds
    window,          \* the window selected for the audio, then for the video
    audio_file,      \* the file background.mp3
    video_file,      \* the file background.mp4
    chop_error,      \* the exception chop_background raised to its caller
    chop_log         \* history: the steps taken, in order

chop_vars == <<chop_pc, volume, chop_video_length, probed_duration, window,
               audio_file, video_file, chop_error, chop_log>>

VARIABLES
    \* the splitting of a text by split_post, on its own
    re_pc,          \* "off" | "call" | "done"
    re_text,        \* the argument text, a sequence of characters
    re_max_chars,   \* self.tts_module.max_chars
    re_split_text,  \* the list split_text
    re_passed       \* the texts handed to call_tts, in order

re_vars == <<re_pc, re_text, re_max_chars, re_split_text, re_passed>>

VARIABLES
    \* add_periods, applied to one comment body
    norm_pc,        \* "off" | "raw" | "once" | "twice"
    comment_body,   \* comment["comment_body"], a sequence of characters
    body_once       \* history: the body after the first call

norm_vars == <<norm_pc, comment_body, body_once>>

vars == <<sel_vars, tts_vars, chop_vars, re_vars, norm_vars>>

\* What the actions of one part leave alone: the variables of the others.
not_sel_vars == <<tts_vars, chop_vars, re_vars, norm_vars>>
not_tts_vars == <<sel_vars, chop_vars, re_vars, norm_vars>>
not_chop_vars == <<sel_vars, tts_vars, re_vars, norm_vars>>
not_re_vars == <<sel_vars, tts_vars, chop_vars, norm_vars>>
not_norm_vars == <<sel_vars, tts_vars, chop_vars, re_vars>>

Min(a, b) == IF a < b THEN a ELSE b
Max(a, b) == IF a > b THEN a ELSE b

(***************************************************************************)
(* background.py: get_start_and_end_times                                  *)
(***************************************************************************)

\* Bounds of the arguments drawn for get_start_and_end_times.
MaxVideoLength == 30
MaxLengthOfClip == 100

\* An outcome of get_start_and_end_times: the window returned, with the
\* branch that produced it, or the exception raised.
Window(start_time, end_time, branch) ==
    [raised |-> "none", start |-> start_time, end |-> end_time, branch |-> branch]
Raised(what) ==
    [raised |-> what, start |-> 0, end |-> 0, branch |-> "raise"]
NoResult == Raised("pending")

\* Lines 59-61: a video_length that is not positive becomes 1.
ClampVideoLength(video_length) ==
    IF video_length <= 0 THEN 1 ELSE video_length

\* A slip in the degenerate branch: the requested length is returned as the
\* end of the window instead of the length of the source.
WholeSourceRequestedEnd(video_length, length_of_clip) ==
    IF length_of_clip > 0
    THEN {Window(0, video_length, "whole")}
    ELSE {Raised("too_short")}

\* A degenerate branch without the check of the source's duration.
WholeSourceNeverRaising(video_length, length_of_clip) ==
    {Window(0, length_of_clip, "whole")}

\* Lines 64-70, taken when length_of_clip <= video_length: the whole source,
\* or an exception when the source has no duration.
WholeSource(video_length, length_of_clip) ==
    IF length_of_clip > 0
    THEN {Window(0, length_of_clip, "whole")}
    ELSE {Raised("too_short")}

\* A largest start without the safety margin.
MaxStartTimeNoMargin(video_length, length_of_clip) ==
    Max(0, length_of_clip - video_length)

\* Lines 74-80: the largest start, with the adaptive margin and its fallback.
MaxStartTime(video_length, length_of_clip) ==
    LET margin == Min(2, length_of_clip \div 10)
        max_start_time == length_of_clip - video_length - margin
    IN  IF max_start_time < 0
        THEN Max(0, length_of_clip - video_length)
        ELSE max_start_time

\* A draw of the start that can exceed the largest start by one.
StartTimesPastMaximum(max_start_time) ==
    IF max_start_time <= 0 THEN {0} ELSE 0..(max_start_time + 1)

\* Lines 84-87: the starts random.randint(0, max_start_time) can give.
StartTimes(max_start_time) ==
    IF max_start_time <= 0 THEN {0} ELSE 0..max_start_time

\* Lines 89-107: the end of the window, the clipping to the source, and the
\* final validation with its last resort.
FinishWindow(video_length, length_of_clip, start_time0) ==
    LET end_time0 == start_time0 + video_length
        clip == end_time0 > length_of_clip
        end_time1 == IF clip THEN length_of_clip ELSE end_time0
        start_time1 == IF clip THEN Max(0, end_time1 - video_length) ELSE start_time0
        end_time2 == Min(video_length, length_of_clip)
    IN  IF end_time1 <= start_time1
        THEN IF end_time2 <= 0
             THEN Raised("no_range")
             ELSE Window(0, end_time2, "last_resort")
        ELSE Window(start_time1, end_time1, IF clip THEN "clipped" ELSE "random")

\* Lines 42-107: every outcome the call can have, one per value of
\* random.randint.
get_start_and_end_times(video_length0, length_of_clip) ==
    LET video_length == ClampVideoLength(video_length0)
    IN  IF length_of_clip <= video_length
        THEN WholeSource(video_length, length_of_clip)
        ELSE { FinishWindow(video_length, length_of_clip, s) :
                 s \in StartTimes(MaxStartTime(video_length, length_of_clip)) }

TtsOff ==
    /\ tts_pc = "off"
    /\ reddit_object = <<>>
    /\ max_length = 0
    /\ length = 0
    /\ last_clip_length = 0
    /\ it = 0
    /\ idx = 0
    /\ idy = 0
    /\ calls = <<>>
    /\ rollback = <<>>
    /\ result = <<>>
    /\ settings = <<>>
    /\ env = <<>>
    /\ files = {}
    /\ split_files = <<>>
    /\ list_txt = <<>>

SelOff ==
    /\ sel_pc = "off"
    /\ sel_video_length = 0
    /\ sel_length_of_clip = 0
    /\ sel_result = NoResult

ReOff ==
    /\ re_pc = "off"
    /\ re_text = <<>>
    /\ re_max_chars = 0
    /\ re_split_text = <<>>
    /\ re_passed = <<>>

NormOff ==
    /\ norm_pc = "off"
    /\ comment_body = <<>>
    /\ body_once = <<>>

NoFile == [kind |-> "none", duration |-> 0]

ChopOff ==
    /\ chop_pc = "off"
    /\ volume = 0
    /\ chop_video_length = 0
    /\ probed_duration = 0
    /\ window = NoResult
    /\ audio_file = NoFile
    /\ video_file = NoFile
    /\ chop_error = "none"
    /\ chop_log = <<>>

InitWindow ==
    /\ TtsOff
    /\ ChopOff
    /\ NormOff
    /\ ReOff
    /\ sel_pc = "call"
    /\ sel_video_length \in (0 - 2)..MaxVideoLength
    /\ sel_length_of_clip \in (0 - 2)..MaxLengthOfClip
    /\ sel_result = NoResult

\* One call of get_start_and_end_times.
SelectWindow ==
    /\ sel_pc = "call"
    /\ \E o \in get_start_and_end_times(sel_video_length, sel_length_of_clip) :
         sel_result' = o
    /\ sel_pc' = "returned"
    /\ UNCHANGED <<sel_video_length, sel_length_of_clip>>
    /\ UNCHANGED not_sel_vars

NextWindow == SelectWindow

SpecWindow == InitWindow /\ [][NextWindow]_vars

\* C1: every window get_start_and_end_times returns for a requested duration D
\* (clamped to at least 1) and a source of duration L has 0 <= start < end <= L,
\* and end - start = D unless L <= D, where the whole source (0, L) is returned.
WindowWithinSource ==
    (sel_pc = "returned" /\ sel_result.raised = "none") =>
        LET D == ClampVideoLength(sel_video_length)
            L == sel_length_of_clip
        IN  /\ 0 <= sel_result.start
            /\ sel_result.start < sel_result.end
            /\ sel_result.end <= L
            /\ IF L <= D
               THEN sel_result.start = 0 /\ sel_result.end = L
               ELSE sel_result.end - sel_result.start = D

\* A window of the requested length that starts after the beginning of a
\* source longer than the request has been returned.
WindowWithinSourceWitness ==
    /\ sel_pc = "returned"
    /\ sel_result.raised = "none"
    /\ sel_result.start > 0
    /\ sel_length_of_clip > ClampVideoLength(sel_video_length)
    /\ sel_result.end - sel_result.start = sel_video_length

\* C18: with L <= D, D being clamped to at least 1, get_start_and_end_times
\* returns the whole source (0, L) when L > 0 and raises, returning no
\* window, when L <= 0; L = 10 and D = 20 give (0, 10).
DegenerateReturnsWholeSource ==
    (sel_pc = "returned" /\ sel_length_of_clip <= Max(1, sel_video_length)) =>
        IF sel_length_of_clip > 0
        THEN /\ sel_result.raised = "none"
             /\ sel_result.start = 0
             /\ sel_result.end = sel_length_of_clip
        ELSE /\ sel_result.raised # "none"
             /\ sel_result.raised # "pending"

\* L = 10 and D = 20: the call has returned (0, 10).
DegenerateReturnsWholeSourceWitness ==
    /\ sel_pc = "returned"
    /\ sel_video_length = 20
    /\ sel_length_of_clip = 10
    /\ sel_result.raised = "none"
    /\ sel_result.start = 0
    /\ sel_result.end = 10

\* The largest start the claim C19 gives for a source of L seconds and a
\* requested duration D.
ClaimedMaxStart(L, D) ==
    IF L - D - Min(2, L \div 10) >= 0
    THEN L - D - Min(2, L \div 10)
    ELSE Max(0, L - D)
ClaimedWindows(L, D) == { <<s, s + D>> : s \in 0..ClaimedMaxStart(L, D) }

\* C19: for L > D >= 1 the windows get_start_and_end_times can return are
\* exactly the (s, s + D) with 0 <= s <= M, M being L - D - min(2, L // 10)
\* when that is not negative and max(0, L - D) otherwise: before the call
\* each of them is a possible outcome and nothing else is, and the window
\* returned is one of them.
WindowsAreExactlyTheStarts ==
    (sel_length_of_clip > sel_video_length /\ sel_video_length >= 1) =>
        /\ sel_pc = "call" =>
             /\ \A o \in get_start_and_end_times(sel_video_length, sel_length_of_clip) :
                    o.raised = "none"
             /\ { <<o.start, o.end>> :
                    o \in get_start_and_end_times(sel_video_length, sel_length_of_clip) }
                  = ClaimedWindows(sel_length_of_clip, sel_video_length)
        /\ sel_pc = "returned" =>
             /\ sel_result.raised = "none"
             /\ <<sel_result.start, sel_result.end>>
                  \in ClaimedWindows(sel_length_of_clip, sel_video_length)

\* L = 100 and D = 30: the call has returned the last window, (68, 98).
WindowsAreExactlyTheStartsWitness ==
    /\ sel_pc = "returned"
    /\ sel_video_length = 30
    /\ sel_length_of_clip = 100
    /\ sel_result.raised = "none"
    /\ sel_result.start = 68
    /\ sel_result.end = 98

\* C21: in get_start_and_end_times the clipping of the end (lines 92-94)
\* and the last resort of the final validation (lines 97-104) are taken for
\* no integer input: "Unable to create valid time range" is never raised,
\* and the call raises exactly when the source duration L is not positive.
ClippingAndLastResortUnreachable ==
    sel_pc = "returned" =>
        /\ sel_result.branch \notin {"clipped", "last_resort"}
        /\ sel_result.raised # "no_range"
        /\ sel_result.raised # "none" <=> sel_length_of_clip <= 0
        /\ sel_result.raised # "none" => sel_result.raised = "too_short"
        /\ sel_result.branch = "random" =>
             /\ sel_result.end = sel_result.start + Max(1, sel_video_length)
             /\ sel_result.end <= sel_length_of_clip

\* The margin does not fit (L = 25, D = 24), the largest start falls back to
\* L - D and the window that starts there ends at L without being clipped.
ClippingAndLastResortUnreachableWitness ==
    /\ sel_pc = "returned"
    /\ sel_video_length = 24
    /\ sel_length_of_clip = 25
    /\ sel_result.branch = "random"
    /\ sel_result.start = 1
    /\ sel_result.end = 25

(***************************************************************************)
(* background.py: chop_background                                          *)
(***************************************************************************)

\* Bounds of the argument video_length and of the durations ffprobe prints
\* for the sources: the selector's margin is 2 seconds from a source of 20
\* seconds on.
MaxChopVideoLength == 20
MaxSourceDuration == 24

\* The durations ffprobe prints for the sources are floats: they are counted
\* in half seconds.  Seconds(n) is a whole number of seconds as a duration,
\* and int(duration) what int() makes of a duration that is not negative.
Seconds(n) == 2 * n
int(duration) == duration \div 2

\* The files chop_background writes.
SilentFile(D) == [kind |-> "silent", duration |-> D]
ExtractedFile(D) == [kind |-> "extracted", duration |-> D]
EmptyFile == [kind |-> "empty", duration |-> 0]
PartialFile == [kind |-> "partial", duration |-> 0]

\* An audio branch that extracts from a source of exactly video_length + 2
\* seconds.
AfterAudioProbeStrict(probe_ok, audio_duration, D) ==
    IF ~probe_ok THEN "audio_final"
    ELSE IF audio_duration < Seconds(D + 2) THEN "audio_short"
    ELSE "audio_select"

\* Lines 192-214 and 247: after the probe of the audio source.  A probe that
\* fails is caught by the outer handler; a source of at most video_length + 2
\* seconds gets a silent file.
AfterAudioProbe(probe_ok, audio_duration, D) ==
    IF ~probe_ok THEN "audio_final"
    ELSE IF audio_duration <= Seconds(D + 2) THEN "audio_short"
    ELSE "audio_select"

\* An audio branch whose outer handler does not catch the exception raised
\* for an empty or missing file.
AfterAudioExtractEmptyRaises(outcome) ==
    IF outcome = "failed" THEN "audio_fallback"
    ELSE IF outcome \in {"missing", "empty"} THEN "raised"
    ELSE "video"

\* Lines 220-247: after the extraction of the audio.  CalledProcessError is
\* caught by the inner handler; the exception raised for an empty or missing
\* file by the outer one.
AfterAudioExtract(outcome) ==
    IF outcome = "failed" THEN "audio_fallback"
    ELSE IF outcome \in {"missing", "empty"} THEN "audio_final"
    ELSE "video"

\* A video branch with a margin of 1 second.
AfterVideoProbeMarginOfOne(probe_ok, video_duration, D) ==
    IF ~probe_ok \/ video_duration <= Seconds(D + 1) THEN "raised" ELSE "video_select"

\* A video branch that accepts a source of exactly video_length + 2 seconds.
AfterVideoProbeStrict(probe_ok, video_duration, D) ==
    IF ~probe_ok \/ video_duration < Seconds(D + 2) THEN "raised" ELSE "video_select"

\* Lines 260-277 and 328-330: after the probe of the video source.
AfterVideoProbe(probe_ok, video_duration, D) ==
    IF ~probe_ok \/ video_duration <= Seconds(D + 2) THEN "raised" ELSE "video_select"

\* A video branch that retries with MoviePy whenever the fast path fails,
\* also when the file it wrote is missing or empty.
AfterVideoExtractFastAlwaysRetrying(outcome) ==
    IF outcome \in {"failed", "missing", "empty"} THEN "video_tolerant"
    ELSE "video_verify"

\* Lines 282-296, 310 and 328-330: after the fast extraction of the video.
\* Only CalledProcessError reaches the MoviePy fallback; the exception raised
\* for an empty or missing file goes to the outer handler, which raises it
\* again.
AfterVideoExtractFast(outcome) ==
    IF outcome = "failed" THEN "video_tolerant"
    ELSE IF outcome \in {"missing", "empty"} THEN "raised"
    ELSE "video_verify"

\* Lines 299-308 and 328-330: after the probe of the file written.  An output
\* that float() cannot parse and a duration that is not positive both raise.
AfterVideoVerify(parse_ok, generated_duration) ==
    IF ~parse_ok \/ generated_duration <= 0 THEN "raised" ELSE "returned"

\* The file an extraction leaves: the command fails with or without a partial
\* file, or succeeds with no file, an empty file or the clip.
FileAfterExtract(outcome, before, D) ==
    IF outcome = "written" THEN ExtractedFile(D)
    ELSE IF outcome = "empty" THEN EmptyFile
    ELSE IF outcome = "missing" THEN NoFile
    ELSE IF outcome = "failed_partial" THEN PartialFile
    ELSE before

\* The exit of an extraction command: both failures raise CalledProcessError.
Exit(outcome) ==
    IF outcome \in {"failed_no_file", "failed_partial"} THEN "failed" ELSE outcome

ExtractOutcomes == {"failed_no_file", "failed_partial", "missing", "empty", "written"}

Step(what) == Append(chop_log, what)

InitChop ==
    /\ chop_pc = "audio"
    /\ volume \in {0, 1}
    /\ chop_video_length \in 0..MaxChopVideoLength
    /\ probed_duration = 0
    /\ window = NoResult
    /\ audio_file = NoFile
    /\ video_file = NoFile
    /\ chop_error = "none"
    /\ chop_log = <<>>
    /\ SelOff
    /\ TtsOff
    /\ ReOff
    /\ NormOff

\* Lines 182-183: no background audio when the volume is 0.
AudioSkip ==
    /\ chop_pc = "audio"
    /\ volume = 0
    /\ chop_pc' = "video"
    /\ chop_log' = Step("audio_skipped")
    /\ UNCHANGED <<volume, chop_video_length, probed_duration, window, audio_file,
                   video_file, chop_error>>
    /\ UNCHANGED not_chop_vars

\* Lines 192-205: ffprobe on the audio source.
AudioProbe ==
    /\ chop_pc = "audio"
    /\ volume # 0
    /\ \E probe_ok \in BOOLEAN, audio_duration \in 0..Seconds(MaxSourceDuration) :
         /\ probe_ok \/ audio_duration = 0
         /\ probed_duration' = audio_duration
         /\ chop_pc' = AfterAudioProbe(probe_ok, audio_duration, chop_video_length)
         /\ chop_log' = Step(IF probe_ok THEN "audio_probed" ELSE "audio_probe_failed")
    /\ UNCHANGED <<volume, chop_video_length, window, audio_file, video_file, chop_error>>
    /\ UNCHANGED not_chop_vars

\* Lines 206-211: the silent file for a source that is too short; a failure
\* of the command goes to the outer handler.
AudioSilentShort ==
    /\ chop_pc = "audio_short"
    /\ \E ok \in BOOLEAN :
         /\ audio_file' = IF ok THEN SilentFile(chop_video_length) ELSE audio_file
         /\ chop_pc' = IF ok THEN "video" ELSE "audio_final"
         /\ chop_log' = Step(IF ok THEN "audio_silent" ELSE "audio_silent_failed")
    /\ UNCHANGED <<volume, chop_video_length, probed_duration, window, video_file,
                   chop_error>>
    /\ UNCHANGED not_chop_vars

\* Line 214: the window of the audio; an exception of the selector goes to
\* the outer handler.
AudioSelect ==
    /\ chop_pc = "audio_select"
    /\ \E o \in get_start_and_end_times(chop_video_length, int(probed_duration)) :
         /\ window' = o
         /\ chop_pc' = IF o.raised = "none" THEN "audio_extract" ELSE "audio_final"
         /\ chop_log' = Step(IF o.raised = "none" THEN "audio_window"
                             ELSE "audio_window_failed")
    /\ UNCHANGED <<volume, chop_video_length, probed_duration, audio_file, video_file,
                   chop_error>>
    /\ UNCHANGED not_chop_vars

\* Lines 220-239: the extraction of the audio with ffmpeg and the check of
\* the file.
AudioExtract ==
    /\ chop_pc = "audio_extract"
    /\ \E outcome \in ExtractOutcomes :
         /\ audio_file' = FileAfterExtract(outcome, audio_file, chop_video_length)
         /\ chop_pc' = AfterAudioExtract(Exit(outcome))
         /\ chop_log' = Step("audio_extract_" \o Exit(outcome))
    /\ UNCHANGED <<volume, chop_video_length, probed_duration, window, video_file,
                   chop_error>>
    /\ UNCHANGED not_chop_vars

\* Lines 240-245: the silent file of the inner handler; a failure of the
\* command goes to the outer handler.
AudioSilentFallback ==
    /\ chop_pc = "audio_fallback"
    /\ \E ok \in BOOLEAN :
         /\ audio_file' = IF ok THEN SilentFile(chop_video_length) ELSE audio_file
         /\ chop_pc' = IF ok THEN "video" ELSE "audio_final"
         /\ chop_log' = Step(IF ok THEN "audio_silent" ELSE "audio_silent_failed")
    /\ UNCHANGED <<volume, chop_video_length, probed_duration, window, video_file,
                   chop_error>>
    /\ UNCHANGED not_chop_vars

\* Lines 247-254: the silent file of the outer handler; a failure of the
\* command is raised to the caller.
AudioSilentFinal ==
    /\ chop_pc = "audio_final"
    /\ \E ok \in BOOLEAN :
         /\ audio_file' = IF ok THEN SilentFile(chop_video_length) ELSE audio_file
         /\ chop_pc' = IF ok THEN "video" ELSE "raised"
         /\ chop_error' = IF ok THEN chop_error ELSE "audio_silent_failed"
         /\ chop_log' = Step(IF ok THEN "audio_silent" ELSE "audio_silent_failed")
    /\ UNCHANGED <<volume, chop_video_length, probed_duration, window, video_file>>
    /\ UNCHANGED not_chop_vars

\* Lines 256-274 and 328-330: ffprobe on the video source.
VideoProbe ==
    /\ chop_pc = "video"
    /\ \E probe_ok \in BOOLEAN, video_duration \in 0..Seconds(MaxSourceDuration) :
         /\ probe_ok \/ video_duration = 0
         /\ probed_duration' = video_duration
         /\ window' = NoResult
         /\ chop_pc' = AfterVideoProbe(probe_ok, video_duration, chop_video_length)
         /\ chop_error' =
              IF ~probe_ok THEN "video_probe_failed"
              ELSE IF chop_pc' = "raised" THEN "video_too_short"
              ELSE chop_error
         /\ chop_log' = Step(IF probe_ok THEN "video_probed" ELSE "video_probe_failed")
    /\ UNCHANGED <<volume, chop_video_length, audio_file, video_file>>
    /\ UNCHANGED not_chop_vars

\* Line 277: the window of the video.
VideoSelect ==
    /\ chop_pc = "video_select"
    /\ \E o \in get_start_and_end_times(chop_video_length, int(probed_duration)) :
         /\ window' = o
         /\ chop_pc' = IF o.raised = "none" THEN "video_extract" ELSE "raised"
         /\ chop_error' = IF o.raised = "none" THEN chop_error ELSE "video_window_failed"
         /\ chop_log' = Step(IF o.raised = "none" THEN "video_window"
                             ELSE "video_window_failed")
    /\ UNCHANGED <<volume, chop_video_length, probed_duration, audio_file, video_file>>
    /\ UNCHANGED not_chop_vars

\* Lines 282-296: the fast extraction of the video with ffmpeg and the check
\* of the file.
VideoExtractFast ==
    /\ chop_pc = "video_extract"
    /\ \E outcome \in ExtractOutcomes :
         /\ video_file' = FileAfterExtract(outcome, video_file, chop_video_length)
         /\ chop_pc' = AfterVideoExtractFast(Exit(outcome))
         /\ chop_error' = IF chop_pc' = "raised" THEN "video_file_invalid"
                          ELSE chop_error
         /\ chop_log' = Step("video_fast_" \o Exit(outcome))
    /\ UNCHANGED <<volume, chop_video_length, probed_duration, window, audio_file>>
    /\ UNCHANGED not_chop_vars

\* Lines 299-308: ffprobe on the file written and the check of its duration.
VideoVerify ==
    /\ chop_pc = "video_verify"
    /\ \E parse_ok \in BOOLEAN, generated_duration \in {0, chop_video_length} :
         /\ parse_ok \/ generated_duration = 0
         /\ chop_pc' = AfterVideoVerify(parse_ok, generated_duration)
         /\ video_file' = [video_file EXCEPT !.duration = generated_duration]
         /\ chop_error' = IF chop_pc' = "raised" THEN "video_duration_invalid"
                          ELSE chop_error
         /\ chop_log' = Step(IF chop_pc' = "raised" THEN "video_verify_failed"
                             ELSE "video_verified")
    /\ UNCHANGED <<volume, chop_video_length, probed_duration, window, audio_file>>
    /\ UNCHANGED not_chop_vars

\* Lines 315-326: the extraction with MoviePy's ffmpeg_extract_subclip.
VideoExtractTolerant ==
    /\ chop_pc = "video_tolerant"
    /\ \E outcome \in {"failed_no_file", "failed_partial", "written"} :
         /\ video_file' = FileAfterExtract(outcome, video_file, chop_video_length)
         /\ chop_pc' = IF outcome = "written" THEN "returned" ELSE "raised"
         /\ chop_error' = IF outcome = "written" THEN chop_error
                          ELSE "video_all_failed"
         /\ chop_log' = Step("video_tolerant_" \o Exit(outcome))
    /\ UNCHANGED <<volume, chop_video_length, probed_duration, window, audio_file>>
    /\ UNCHANGED not_chop_vars

NextChop ==
    \/ AudioSkip
    \/ AudioProbe
    \/ AudioSilentShort
    \/ AudioSelect
    \/ AudioExtract
    \/ AudioSilentFallback
    \/ AudioSilentFinal
    \/ VideoProbe
    \/ VideoSelect
    \/ VideoExtractFast
    \/ VideoVerify
    \/ VideoExtractTolerant

SpecChop == InitChop /\ [][NextChop]_vars

(***************************************************************************)
(* The claims about chop_background                                        *)
(***************************************************************************)

Logged(what) == \E k \in DOMAIN chop_log : chop_log[k] = what
LastStep == chop_log[Len(chop_log)]
\* chop_background has left the audio branch without raising.
InVideoBranch ==
    chop_pc \in {"video", "video_select", "video_extract", "video_verify",
                 "video_tolerant", "returned"}
      \/ (chop_pc = "raised" /\ chop_error # "audio_silent_failed")
\* The probe or the extraction of the audio failed, or the extraction left
\* no file or an empty one.
AudioFailed ==
    \/ Logged("audio_probe_failed")
    \/ Logged("audio_extract_failed")
    \/ Logged("audio_extract_missing")
    \/ Logged("audio_extract_empty")

\* The audio branch is over: the video branch was entered or the audio
\* branch raised.
AudioBranchOver == InVideoBranch \/ chop_pc = "raised"
\* The audio branch raised: chop_background ended before the video branch.
AudioRaised ==
    chop_pc = "raised" /\ ~Logged("video_probed") /\ ~Logged("video_probe_failed")

\* C9 as stated: with a volume that is not 0, after a failure of the probe
\* or of the extraction of the audio, or an extraction that leaves no file
\* or an empty one, a silent file of the requested duration is written and
\* the video branch is entered.
AudioFailuresAlwaysEndInSilence ==
    (volume # 0 /\ AudioFailed /\ AudioBranchOver) =>
        /\ InVideoBranch
        /\ audio_file = SilentFile(chop_video_length)

\* C9, amended: with a volume that is not 0, no failure of the probe or of
\* the extraction of the audio reaches the caller: after each of them the
\* command that writes a silent file of the requested duration is run, and
\* when it succeeds the video branch is entered with that file.  When the
\* command fails in the outer handler, its error reaches the caller: no
\* silent file is written and the video branch is not entered.
AudioFailuresEndInSilence ==
    /\ AudioRaised =>
         /\ volume # 0
         /\ LastStep = "audio_silent_failed"
         /\ chop_error = "audio_silent_failed"
         /\ audio_file.kind # "silent"
         /\ video_file = NoFile
    /\ (volume # 0 /\ AudioFailed /\ AudioBranchOver) =>
         /\ Logged("audio_silent") \/ Logged("audio_silent_failed")
         /\ AudioRaised \/ InVideoBranch
         /\ InVideoBranch =>
              /\ Logged("audio_silent")
              /\ audio_file = SilentFile(chop_video_length)
    /\ (volume # 0 /\ InVideoBranch)
         => /\ audio_file.kind \in {"silent", "extracted"}
            /\ audio_file.duration = chop_video_length

\* The extraction of the audio failed and so did the command of the inner
\* handler; the outer handler wrote the silent file and the video branch
\* was entered with it.
AudioFailuresEndInSilenceWitness ==
    /\ chop_pc = "video_extract"
    /\ Logged("audio_extract_failed")
    /\ Logged("audio_silent_failed")
    /\ Logged("audio_silent")
    /\ chop_video_length > 0
    /\ audio_file = SilentFile(chop_video_length)

\* The fast extraction of the video failed: its command, or the checks of
\* the file it wrote.
VideoFastFailed ==
    \/ Logged("video_fast_failed")
    \/ Logged("video_fast_missing")
    \/ Logged("video_fast_empty")
    \/ Logged("video_verify_failed")
TolerantAttempted ==
    Logged("video_tolerant_failed") \/ Logged("video_tolerant_written")

\* C10 as stated: whenever the fast extraction fails, the tolerant one is
\* attempted before an error reaches the caller.
FastFailureAlwaysRetried ==
    (chop_pc = "raised" /\ VideoFastFailed) => Logged("video_tolerant_failed")

\* C10, amended: the tolerant extraction is attempted exactly when the
\* command of the fast extraction fails, and then an error reaches the
\* caller only after the tolerant one has failed too; when the command
\* succeeds and the file is missing, empty or without a positive duration,
\* the error reaches the caller with no tolerant attempt.
TolerantOnlyAfterCommandError ==
    /\ (chop_pc = "video_tolerant" \/ TolerantAttempted)
         <=> Logged("video_fast_failed")
    /\ (chop_pc = "raised" /\ Logged("video_fast_failed"))
         => LastStep = "video_tolerant_failed"
    /\ (Logged("video_fast_missing") \/ Logged("video_fast_empty")
          \/ Logged("video_verify_failed"))
         => /\ chop_pc = "raised"
            /\ chop_error \in {"video_file_invalid", "video_duration_invalid"}
            /\ ~TolerantAttempted

\* The file was written and its check failed: the error reached the caller
\* and the tolerant extraction was not attempted.
TolerantOnlyAfterCommandErrorWitness ==
    /\ chop_pc = "raised"
    /\ Logged("video_fast_written")
    /\ Logged("video_verify_failed")
    /\ ~TolerantAttempted

\* The audio branch is still running or has just handed over: the duration
\* probed is that of the audio source.
InAudioBranch == ~Logged("video_probed") /\ ~Logged("video_probe_failed")
AudioWindowSelected == Logged("audio_window")
AudioExtractAttempted ==
    \E o \in {"failed", "missing", "empty", "written"} : Logged("audio_extract_" \o o)
\* What follows a successful probe of the audio source when the sources of
\* less than `limit` seconds are the short ones.
AudioProbeDecides(short) ==
    (volume # 0 /\ Logged("audio_probed") /\ InAudioBranch) =>
        IF short
        THEN /\ \/ chop_pc = "audio_short"
                \/ /\ Len(chop_log) >= 2
                   /\ chop_log[2] \in {"audio_silent", "audio_silent_failed"}
             /\ ~AudioWindowSelected
             /\ ~AudioExtractAttempted
             /\ chop_pc = "video" => audio_file = SilentFile(chop_video_length)
        ELSE /\ chop_pc = "audio_select" \/ AudioWindowSelected
             /\ chop_pc \in {"audio_select", "audio_extract"} \/ AudioExtractAttempted
             /\ ~Logged("audio_window_failed")

\* C11 as stated: the silent file replaces the extraction exactly when the
\* audio source is shorter than video_length + 2 seconds; a source of exactly
\* video_length + 2 seconds gets a window and an extraction.
SilentAudioBelowMargin ==
    AudioProbeDecides(probed_duration < Seconds(chop_video_length + 2))

\* C11, amended: the silent file of video_length seconds replaces the
\* extraction exactly when the audio source is at most video_length + 2
\* seconds long, the source of exactly video_length + 2 seconds included;
\* for every longer source a window is selected and the extraction is
\* attempted.
SilentAudioUpToMargin ==
    AudioProbeDecides(probed_duration <= Seconds(chop_video_length + 2))

\* The audio source is exactly video_length + 2 seconds long and the video
\* branch is entered with the silent file, no window having been selected.
SilentAudioUpToMarginWitness ==
    /\ chop_pc = "video"
    /\ volume # 0
    /\ chop_video_length > 0
    /\ probed_duration = Seconds(chop_video_length + 2)
    /\ chop_log = <<"audio_probed", "audio_silent">>
    /\ audio_file = SilentFile(chop_video_length)

VideoFastAttempted ==
    \E o \in {"failed", "missing", "empty", "written"} : Logged("video_fast_" \o o)
\* What follows a successful probe of the video source when `short` tells
\* the sources that are too short.
VideoProbeDecides(short) ==
    Logged("video_probed") =>
        IF short
        THEN /\ chop_pc = "raised"
             /\ chop_error = "video_too_short"
             /\ LastStep = "video_probed"
             /\ window = NoResult
             /\ video_file = NoFile
             /\ ~VideoFastAttempted /\ ~TolerantAttempted
        ELSE /\ chop_pc = "video_select" \/ Logged("video_window")
             /\ chop_pc \in {"video_select", "video_extract"} \/ VideoFastAttempted
             /\ chop_error # "video_too_short"

\* C12 as stated: a video source shorter than video_length + 2 seconds is
\* fatal, and one of exactly video_length + 2 seconds gets a window and an
\* extraction.
ShortVideoBelowMarginFatal ==
    VideoProbeDecides(probed_duration < Seconds(chop_video_length + 2))

\* C12, amended: a video source of at most video_length + 2 seconds, the one
\* of exactly video_length + 2 seconds included, is fatal: the error reaches
\* the caller with no window selected and no extraction attempted; for every
\* longer source the window is selected and the extraction proceeds.
ShortVideoUpToMarginFatal ==
    VideoProbeDecides(probed_duration <= Seconds(chop_video_length + 2))

\* The video source is exactly video_length + 2 seconds long and the error
\* has reached the caller.
ShortVideoUpToMarginFatalWitness ==
    /\ chop_pc = "raised"
    /\ chop_error = "video_too_short"
    /\ chop_video_length > 0
    /\ probed_duration = Seconds(chop_video_length + 2)
    /\ window = NoResult

\* What holds of each window chop_background has selected, for the audio
\* or for the video, in a source of L = int(duration) seconds when the
\* window is to last `wanted` seconds: the call did not take the branch of
\* the whole source nor the fallback of the margin, and the window ends at
\* or before L - min(2, L // 10).
SelectedWindowIs(wanted) ==
    LET L == int(probed_duration)
        margin == Min(2, L \div 10)
    IN  /\ ~Logged("audio_window_failed")
        /\ ~Logged("video_window_failed")
        /\ window.raised = "none" =>
             /\ L > chop_video_length
             /\ window.branch = "random"
             /\ L - Max(1, chop_video_length) - margin >= 0
             /\ window.end - window.start = wanted
             /\ window.start >= 0
             /\ window.end <= L - margin

\* C22 as stated: every window chop_background selects lasts exactly the
\* requested duration D.
SelectedWindowLastsRequested ==
    SelectedWindowIs(chop_video_length)

\* C22, amended: every call chop_background makes to
\* get_start_and_end_times has a source long enough that neither the branch
\* of the whole source nor the fallback of the margin is taken; the window
\* lasts exactly max(1, int(D)) seconds, 1 second and not 0 when D is 0, and
\* ends at or before L - min(2, L // 10).
SelectedWindowLastsClamped ==
    SelectedWindowIs(Max(1, chop_video_length))

\* The video source lasts 20.5 seconds for a requested duration of 18: the
\* call is made with L = 20 = D + 2, the margin is 2 seconds and the one
\* window there is, (0, 18), was returned.
SelectedWindowLastsClampedWitness ==
    /\ chop_pc = "video_extract"
    /\ chop_video_length = 18
    /\ probed_duration = Seconds(20) + 1
    /\ Min(2, int(probed_duration) \div 10) = 2
    /\ window.raised = "none"
    /\ window.start = 0
    /\ window.end = 18

\* C16: when the video branch fails fatally, at the probe or after both
\* extractions have failed, no background.mp4 written by this call remains.
FatalVideoLeavesNoFile ==
    (chop_pc = "raised" /\ chop_error \in {"video_probe_failed", "video_all_failed"})
        => video_file = NoFile

(***************************************************************************)
(* engine_wrapper.py: TTSEngine                                            *)
(***************************************************************************)

\* Line 18.
DEFAULT_MAX_LENGTH == 50

\* tts_module.max_chars, the engine's limit of characters per call.
MaxChars == 5
\* The largest number of comments of a thread.
MaxComments == 4

\* What the synthesis and the measurement of one text give: whether ffprobe
\* succeeds and the duration it prints, whether AudioFileClip opens and the
\* duration it reads, and the number of words of the text.
Clip(probe_ok, probe, decode_ok, decode, words) ==
    [probe_ok |-> probe_ok, probe |-> probe,
     decode_ok |-> decode_ok, decode |-> decode, words |-> words]
\* A text whose clip ffprobe measures as d seconds.
Probed(d) == Clip(TRUE, d, TRUE, d, 1)
\* The clip of a chunk that is skipped and never synthesized.
NoClip == Clip(FALSE, 0, FALSE, 0, 0)

\* The clips of a title and of a comment synthesized in one call.
TitleClips == {Probed(0), Probed(5)}
DirectClips == {Probed(0), Probed(5), Probed(40)}
\* Every measurement of one clip: each tier failing or not, with a duration
\* that is zero or not, and word counts whose estimate is a whole number of
\* seconds.
AllClips ==
    { Clip(po, p, do, d, w) :
        po \in BOOLEAN, p \in {0, 3}, do \in BOOLEAN, d \in {0, 4},
        w \in {0, 2, 5, 10} }

MaxLengths == {10, DEFAULT_MAX_LENGTH}

\* The whitespace of the texts and the letters of the words.
Whitespace == {" ", "\n"}
Letters == {"a", "A", "G", "I"}

\* Lines 108-113: the pattern " *(((.|\n){0,max_chars})(\.|.$))" ends at q
\* when the character at q is a period, or is any character but a newline
\* and is the last of the text or the last before a final newline.
Terminates(text, q) ==
    /\ q \in 1..Len(text)
    /\ \/ text[q] = "."
       \/ /\ text[q] # "\n"
          /\ \/ q = Len(text)
             \/ q = Len(text) - 1 /\ text[Len(text)] = "\n"

\* The spaces of the text from position p on.
Spaces(text, p) ==
    LET stops == {k \in p..Len(text) : text[k] # " "}
    IN  IF stops = {} THEN Len(text) - p + 1
        ELSE (CHOOSE k \in stops : \A m \in stops : k <= m) - p

\* Lines 108-113: where the match that starts at p ends, 0 when there is
\* none.  Both quantifiers are greedy: the regex engine takes the most
\* spaces for which a match exists and then the longest run of at most
\* max_chars characters before the terminator.
MatchEnd(text, p, N) ==
    LET found == { <<s, n>> \in (0..Spaces(text, p)) \X (0..N) :
                     Terminates(text, p + s + n) }
        best == CHOOSE c \in found :
                  \A d \in found : d[1] < c[1] \/ (d[1] = c[1] /\ d[2] <= c[2])
    IN  IF found = {} THEN 0 ELSE p + best[1] + best[2]

RECURSIVE Matches(_, _, _)
\* Lines 108-113: the matches re.finditer yields from position p on; where
\* no match starts, the search moves on by one character.
Matches(text, p, N) ==
    IF p > Len(text) THEN <<>>
    ELSE LET q == MatchEnd(text, p, N)
         IN  IF q = 0 THEN Matches(text, p + 1, N)
             ELSE <<SubSeq(text, p, q)>> \o Matches(text, q + 1, N)

RECURSIVE Strip(_)
\* str.strip(): without the whitespace at both ends.
Strip(chunk) ==
    IF chunk = <<>> THEN chunk
    ELSE IF Head(chunk) \in Whitespace THEN Strip(Tail(chunk))
    ELSE IF chunk[Len(chunk)] \in Whitespace
         THEN Strip(SubSeq(chunk, 1, Len(chunk) - 1))
    ELSE chunk

\* Lines 108-113: split_text.
SplitText(text, N) ==
    LET found == Matches(text, 1, N)
    IN  [k \in DOMAIN found |-> Strip(found[k])]

RECURSIVE CollapseWhitespace(_)
\* Each run of whitespace as one space.
CollapseWhitespace(text) ==
    IF text = <<>> THEN text
    ELSE IF Len(text) >= 2 /\ text[1] \in Whitespace /\ text[2] \in Whitespace
         THEN CollapseWhitespace(Tail(text))
    ELSE <<IF text[1] \in Whitespace THEN " " ELSE text[1]>>
           \o CollapseWhitespace(Tail(text))

\* utils.voice.sanitize_text on these characters: the runs of whitespace
\* become one space and the ends are stripped.
sanitize_text(text) == CollapseWhitespace(Strip(text))

\* Lines 209-216: process_text with no post_lang set.
process_text(text) == sanitize_text(text)

\* Lines 121-125: a text is skipped when it is empty or whitespace.
IsBlank(newtext) == \A k \in DOMAIN newtext : newtext[k] \in Whitespace

RECURSIVE PassedToTts(_)
\* Lines 117-125: the texts split_post hands to call_tts.
PassedToTts(chunks) ==
    IF chunks = <<>> THEN <<>>
    ELSE LET newtext == process_text(Head(chunks))
         IN  (IF IsBlank(newtext) THEN <<>> ELSE <<newtext>>)
               \o PassedToTts(Tail(chunks))

\* Line 58: what the classes [a-zA-Z0-9\.\/\?\:@\-_=#] and
\* [a-zA-Z0-9\.\&\/\?\:@\-_=#] of regex_urls hold of these characters.
UrlChars == Letters \cup {"."}

\* The last position of the run of UrlChars that starts at p.
RunEnd(text, p) ==
    LET stops == {k \in p..Len(text) : text[k] \notin UrlChars}
    IN  IF stops = {} THEN Len(text)
        ELSE (CHOOSE k \in stops : \A m \in stops : k <= m) - 1

\* Line 58: regex_urls matches at p when one or more UrlChars are followed
\* by a period and two letters; "http://" cannot be written with these
\* characters.
UrlStartsAt(text, p) ==
    \E i \in (p + 1)..(Len(text) - 2) :
        /\ \A k \in p..(i - 1) : text[k] \in UrlChars
        /\ text[i] = "."
        /\ text[i + 1] \in Letters
        /\ text[i + 2] \in Letters

RECURSIVE RemoveUrls(_, _)
\* Lines 58-59: each match becomes a space; the last class of the pattern
\* takes the rest of the run.
RemoveUrls(text, p) ==
    IF p > Len(text) THEN <<>>
    ELSE IF UrlStartsAt(text, p)
         THEN <<" ">> \o RemoveUrls(text, RunEnd(text, p) + 1)
    ELSE <<text[p]>> \o RemoveUrls(text, p + 1)

RECURSIVE Replace(_, _, _)
\* str.replace, and re.sub of a pattern that is one string: the occurrences
\* from the left that do not overlap.
Replace(text, old, new) ==
    IF Len(text) < Len(old) THEN text
    ELSE IF SubSeq(text, 1, Len(old)) = old
         THEN new \o Replace(SubSeq(text, Len(old) + 1, Len(text)), old, new)
    ELSE <<Head(text)>> \o Replace(Tail(text), old, new)

RECURSIVE ReplaceWord(_, _, _, _)
\* Lines 61-62: re.sub of \bword\b: the occurrences with no letter before
\* and none after.
ReplaceWord(text, p, word, new) ==
    LET q == p + Len(word) - 1
    IN  IF p > Len(text) THEN <<>>
        ELSE IF /\ q <= Len(text)
                /\ SubSeq(text, p, q) = word
                /\ (p = 1 \/ text[p - 1] \notin Letters)
                /\ (q = Len(text) \/ text[q + 1] \notin Letters)
             THEN new \o ReplaceWord(text, q + 1, word, new)
        ELSE <<text[p]>> \o ReplaceWord(text, p + 1, word, new)

\* Lines 56-68: the passes of add_periods on one comment body, in order.
add_periods(body) ==
    LET no_urls == RemoveUrls(body, 1)
        no_newlines == Replace(no_urls, <<"\n">>, <<".", " ">>)
        ai == ReplaceWord(no_newlines, 1, <<"A", "I">>, <<"A", ".", "I">>)
        agi == ReplaceWord(ai, 1, <<"A", "G", "I">>, <<"A", ".", "G", ".", "I">>)
        ended == IF agi[Len(agi)] # "." THEN Append(agi, ".") ELSE agi
        three == Replace(ended, <<".", " ", ".", " ", ".">>, <<".">>)
        two == Replace(three, <<".", ".", " ", ".", " ">>, <<".">>)
        one == Replace(two, <<".", " ", ".", " ">>, <<".">>)
    IN  Replace(one, <<".", "\"", ".">>, <<"\"", ".">>)

\* A word of n letters, and n words each on a line of its own, of which no
\* two fit in max_chars characters.
Word(n) == [k \in 1..n |-> "a"]
RECURSIVE Paragraphs(_)
Paragraphs(n) ==
    IF n <= 1 THEN Word(MaxChars - 2)
    ELSE Paragraphs(n - 1) \o <<"\n">> \o Word(MaxChars - 2)

\* A comment: its body, and the clips of the texts made of it, in order:
\* of its chunks when split_post splits it, of the body otherwise.
Comment(body, parts) == [comment_body |-> body, parts |-> parts]
\* The bodies of the comments: one that add_periods brings to max_chars
\* characters, one that it brings above, and one of two paragraphs.
ShortBody == Word(MaxChars - 1)
LongBody == Word(MaxChars)
\* The comments of a thread; the body of the last is empty.
Comments ==
    { Comment(ShortBody, <<c>>) : c \in DirectClips }
      \cup { Comment(LongBody, <<Probed(5)>>),
             Comment(Paragraphs(2), <<Probed(5), Probed(5)>>),
             Comment(Paragraphs(2), <<Probed(5), Probed(0)>>),
             Comment(<<>>, <<>>) }
CommentLists ==
    UNION { [1..n -> Comments] : n \in 0..MaxComments }

\* Lines 55-57: add_periods rewrites the bodies of the comments in place,
\* in order; line 63 raises IndexError at the first body that is empty, and
\* the bodies after it are left as they were.
FirstEmpty(comments) ==
    LET empty == {k \in DOMAIN comments : comments[k].comment_body = <<>>}
    IN  IF empty = {} THEN Len(comments) + 1
        ELSE CHOOSE k \in empty : \A m \in empty : k <= m
AddPeriodsToComments(comments) ==
    [k \in DOMAIN comments |->
        IF k < FirstEmpty(comments)
        THEN [comments[k] EXCEPT !.comment_body = add_periods(@)]
        ELSE comments[k]]

\* The file names run and split_post hand to call_tts: "title", f"{idx}" and
\* f"{idx}-{idy}.part".
TitleFile == [unit |-> "title", idx |-> 0, idy |-> 0]
CommentFile(i) == [unit |-> "comment", idx |-> i, idy |-> 0]
PartFile(i, j) == [unit |-> "part", idx |-> i, idy |-> j]
\* In story mode: "postaudio", "postaudio-{idy}.part" and "postaudio-{idx}".
StoryFile == [unit |-> "postaudio", idx |-> 0, idy |-> 0]
StoryPartFile(j) == [unit |-> "postaudio_part", idx |-> 0, idy |-> j]
StoryElementFile(i) == [unit |-> "postaudio_element", idx |-> i, idy |-> 0]

SilenceFile == [unit |-> "silence", idx |-> 0, idy |-> 0]

\* A file is a name and the audio in it: the segments it was made of, each
\* with the file it came from and its duration.
Segment(name, duration) == [file |-> name, duration |-> duration]
WriteFile(fs, name, segments) ==
    {f \in fs : f.name # name} \cup {[name |-> name, segments |-> segments]}
Unlink(fs, name) == {f \in fs : f.name # name}
Exists(fs, name) == \E f \in fs : f.name = name
Content(fs, name) == (CHOOSE f \in fs : f.name = name).segments

\* Lines 183-185: the duration estimated from the number of words, 150 words
\* a minute and at least one second.
EstimatedDuration(word_count) ==
    Max(1, (word_count * 60) \div 150)

\* A measurement that also falls through to the next tier when a tier
\* succeeds with a duration that is not positive.
TiersFallingThroughOnZero(clip) ==
    IF clip.probe_ok /\ clip.probe > 0
    THEN <<"probe">>
    ELSE IF clip.decode_ok /\ clip.decode > 0
         THEN <<"probe", "decode">>
         ELSE <<"probe", "decode", "estimate">>

\* Lines 159-186: the tiers call_tts attempts, in order.  The decoding is in
\* the except clause of the probe and the estimate in the except clause of
\* the decoding.
Tiers(clip) ==
    IF clip.probe_ok
    THEN <<"probe">>
    ELSE IF clip.decode_ok
         THEN <<"probe", "decode">>
         ELSE <<"probe", "decode", "estimate">>

\* Lines 155-186: clip_duration, set by the last tier attempted.
ClipDuration(clip) ==
    LET tiers == Tiers(clip)
        last == tiers[Len(tiers)]
    IN  IF last = "probe" THEN clip.probe
        ELSE IF last = "decode" THEN clip.decode
        ELSE EstimatedDuration(clip.words)

\* An update that restarts the total when nothing was measured.
UpdateDurationsResettingTotal(len, clip_duration) ==
    IF clip_duration > 0
    THEN [length |-> len + clip_duration, last_clip_length |-> clip_duration]
    ELSE [length |-> 0, last_clip_length |-> 0]

\* Lines 189-196: the running total and the last clip's duration after a
\* measurement.
UpdateDurations(len, clip_duration) ==
    IF clip_duration > 0
    THEN [length |-> len + clip_duration, last_clip_length |-> clip_duration]
    ELSE [length |-> len, last_clip_length |-> 0]

\* Lines 147-196: call_tts synthesizes the text, measures the clip and
\* updates the durations.
call_tts(filename, clip) ==
    LET clip_duration == ClipDuration(clip)
        after == UpdateDurations(length, clip_duration)
    IN  /\ length' = after.length
        /\ last_clip_length' = after.last_clip_length
        /\ calls' = Append(calls,
              [filename |-> filename, clip |-> clip, tiers |-> Tiers(clip),
               clip_duration |-> clip_duration, length_before |-> length,
               length_after |-> after.length,
               last_clip_length_after |-> after.last_clip_length])

\* Lines 148-152: the file the engine writes for a text; its audio lasts
\* what call_tts then measures.
TtsWrites(fs, filename, clip) ==
    WriteFile(fs, filename, <<Segment(filename, ClipDuration(clip))>>)

NoRollback == [happened |-> FALSE, amount |-> 0, at |-> 0]
NoReturn == [returned |-> FALSE, length |-> 0, idx |-> 0]
Returned(len, i) == [returned |-> TRUE, length |-> len, idx |-> i]

\* What a run reads; add_periods alone writes to reddit_object.
tts_inputs == <<reddit_object, max_length, settings, env>>

\* The settings read by run and split_post: storymode, storymodemethod and
\* tts.silence_duration.
Settings(storymode, storymodemethod, silence_duration) ==
    [storymode |-> storymode, storymodemethod |-> storymodemethod,
     silence_duration |-> silence_duration]

\* The environment of a run.  unlink: whether a call of os.unlink in
\* split_post raises ("not_found": FileNotFoundError, the file is gone;
\* "os_error": another OSError, the file stays) and at which call (at, from
\* 1).  concat: what ffmpeg's concat does at a listed file that is missing:
\* it writes what comes before ("stops") or nothing ("fails").
Env(unlink, at, concat) == [unlink |-> unlink, at |-> at, concat |-> concat]
ReliableEnv == Env("ok", 0, "stops")

\* Lines 36-51: the engine after construction.
InitEngine ==
    /\ reddit_object \in [title : TitleClips, comments : CommentLists,
                          thread_post : {<<>>}]
    /\ max_length \in MaxLengths
    /\ length = 0
    /\ last_clip_length = 0
    /\ it = 0
    /\ idx = 0
    /\ idy = 0
    /\ calls = <<>>
    /\ rollback = NoRollback
    /\ result = NoReturn
    /\ settings = Settings(FALSE, 0, 1)
    /\ env = ReliableEnv
    /\ files = {}
    /\ split_files = <<>>
    /\ list_txt = <<>>

NumComments == Len(reddit_object.comments)
\* The comment the for loop of run yields next.
NextComment == reddit_object.comments[it + 1]

\* A budget check that also stops at a total equal to the maximum.
ShouldRollbackAtMaximum(len, max_len, i) ==
    len >= max_len /\ i > 1

\* A budget check that is made from the second comment on.
ShouldRollbackFromSecond(len, max_len, i) ==
    len > max_len /\ i > 0

\* Line 92: the budget check at the head of an iteration.
ShouldRollback(len, max_len, i) ==
    len > max_len /\ i > 1

\* Line 97: the comment is too long for one call.
TooLong(text) == Len(text) > MaxChars

\* Lines 83, 99 and 125: the text split_post was called with, the name of
\* the file of its chunk j and the name of the file it concatenates: the
\* story's ("postaudio") in story mode, the comment's otherwise.
SplitSource ==
    IF settings.storymode THEN reddit_object.thread_post
    ELSE [text |-> NextComment.comment_body, parts |-> NextComment.parts]
\* Lines 107-113: split_text, the chunks of that text.
split_text == SplitText(SplitSource.text, MaxChars)
ChunkFile(i, j) ==
    IF settings.storymode THEN StoryPartFile(j) ELSE PartFile(i, j)
UnitFile(i) ==
    IF settings.storymode THEN StoryFile ELSE CommentFile(i)

\* A list.txt with silence.mp3 between each chunk and the next.
ListLinesInterleaved(i, chunks) ==
    [k \in 1..(2 * chunks - 1) |->
        IF k % 2 = 1 THEN ChunkFile(i, (k - 1) \div 2) ELSE SilenceFile]

\* Lines 126-130: the lines split_post writes to list.txt: every chunk of
\* the text, synthesized or not, and silence.mp3 once, after them.
ListLines(i, chunks) ==
    [k \in 1..chunks |-> ChunkFile(i, k - 1)] \o <<SilenceFile>>

RECURSIVE Concatenated(_, _)
\* The audio of the listed files, in order.
Concatenated(fs, list) ==
    IF list = <<>> THEN <<>>
    ELSE Content(fs, Head(list)) \o Concatenated(fs, Tail(list))

\* Lines 132-138: what ffmpeg's concat writes for a list: the audio of the
\* listed files in order; at a file that is missing, what comes before it
\* or, when it fails or nothing comes before, nothing (<<>>).
Concat(fs, list, mode) ==
    LET missing == {k \in DOMAIN list : ~Exists(fs, list[k])}
        first == CHOOSE k \in missing : \A m \in missing : k <= m
    IN  IF missing = {} THEN Concatenated(fs, list)
        ELSE IF mode = "fails" THEN <<>>
        ELSE Concatenated(fs, SubSeq(list, 1, first - 1))

\* Lines 139-145: the files left by the loop that unlinks split_files.  The
\* try statement is around the loop: the call that raises ends it.
AfterUnlinks(fs, names, e) ==
    LET raises == e.unlink # "ok" /\ e.at \in DOMAIN names
        last == IF raises THEN e.at - 1 ELSE Len(names)
        gone == {names[k] : k \in 1..last}
                  \cup (IF raises /\ e.unlink = "not_found"
                        THEN {names[e.at]} ELSE {})
    IN  {f \in fs : f.name \notin gone}

\* Lines 71-77: run normalizes the comments, synthesizes the title and sets
\* idx; the IndexError of add_periods ends it before the title.
RunTitle ==
    /\ tts_pc = "run"
    /\ reddit_object' = [reddit_object EXCEPT
                           !.comments = AddPeriodsToComments(@)]
    /\ IF FirstEmpty(reddit_object.comments) <= Len(reddit_object.comments)
       THEN /\ tts_pc' = "raised"
            /\ UNCHANGED <<length, last_clip_length, calls, files, idx>>
       ELSE /\ call_tts(TitleFile, reddit_object.title)
            /\ files' = TtsWrites(files, TitleFile, reddit_object.title)
            /\ idx' = 0
            /\ tts_pc' = IF settings.storymode THEN "story" ELSE "loop"
    /\ UNCHANGED <<it, idy, rollback, result, split_files, list_txt>>
    /\ UNCHANGED <<max_length, settings, env>>
    /\ UNCHANGED not_tts_vars

\* Lines 90-95 and 103-104: the budget is exceeded; the last clip's duration
\* is subtracted, idx is decremented, the loop stops and run returns.
LoopRollback ==
    /\ tts_pc = "loop"
    /\ it < NumComments
    /\ ShouldRollback(length, max_length, it)
    /\ length' = length - last_clip_length
    /\ idx' = it - 1
    /\ rollback' = [happened |-> TRUE, amount |-> last_clip_length, at |-> it]
    /\ result' = Returned(length', idx')
    /\ tts_pc' = "done"
    /\ UNCHANGED <<last_clip_length, it, idy, calls, files, split_files, list_txt>>
    /\ UNCHANGED tts_inputs
    /\ UNCHANGED not_tts_vars

\* Lines 90-101: a comment short enough is synthesized in one call.
LoopDirect ==
    /\ tts_pc = "loop"
    /\ it < NumComments
    /\ ~ShouldRollback(length, max_length, it)
    /\ ~TooLong(NextComment.comment_body)
    /\ idx' = it
    /\ call_tts(CommentFile(it), NextComment.parts[1])
    /\ files' = TtsWrites(files, CommentFile(it), NextComment.parts[1])
    /\ it' = it + 1
    /\ UNCHANGED <<tts_pc, idy, rollback, result, split_files, list_txt>>
    /\ UNCHANGED tts_inputs
    /\ UNCHANGED not_tts_vars

\* Lines 90-99 and 107-116: a comment that is too long enters split_post,
\* which splits the text and writes silence.mp3.
LoopSplit ==
    /\ tts_pc = "loop"
    /\ it < NumComments
    /\ ~ShouldRollback(length, max_length, it)
    /\ TooLong(NextComment.comment_body)
    /\ idx' = it
    /\ idy' = 0
    /\ split_files' = <<>>
    /\ files' = WriteFile(files, SilenceFile,
                          <<Segment(SilenceFile, settings.silence_duration)>>)
    /\ tts_pc' = "split"
    /\ UNCHANGED <<length, last_clip_length, it, calls, rollback, result, list_txt>>
    /\ UNCHANGED tts_inputs
    /\ UNCHANGED not_tts_vars

\* Lines 117-123: a chunk that process_text leaves blank is skipped.
SplitSkipBlank ==
    /\ tts_pc = "split"
    /\ idy < Len(split_text)
    /\ IsBlank(process_text(split_text[idy + 1]))
    /\ idy' = idy + 1
    /\ UNCHANGED <<tts_pc, length, last_clip_length, it, idx, calls, rollback,
                   result, files, split_files, list_txt>>
    /\ UNCHANGED tts_inputs
    /\ UNCHANGED not_tts_vars

\* Lines 117-138: any other chunk is synthesized; list.txt is written again
\* and ffmpeg concatenates what it lists into the file of the text.
SplitSynthesize ==
    /\ tts_pc = "split"
    /\ idy < Len(split_text)
    /\ ~IsBlank(process_text(split_text[idy + 1]))
    /\ call_tts(ChunkFile(idx, idy), SplitSource.parts[idy + 1])
    /\ LET written == TtsWrites(files, ChunkFile(idx, idy), SplitSource.parts[idy + 1])
           lines == ListLines(idx, Len(split_text))
           audio == Concat(written, lines, env.concat)
       IN  /\ list_txt' = lines
           /\ split_files' = Append(split_files, ChunkFile(idx, idy))
           /\ files' = IF audio = <<>> THEN written
                       ELSE WriteFile(written, UnitFile(idx), audio)
    /\ idy' = idy + 1
    /\ UNCHANGED <<tts_pc, it, idx, rollback, result>>
    /\ UNCHANGED tts_inputs
    /\ UNCHANGED not_tts_vars

\* Lines 139-145: split_post deletes the chunks' files and returns to run:
\* to its loop over the comments or, in story mode, to its end.
SplitCleanup ==
    /\ tts_pc = "split"
    /\ idy = Len(split_text)
    /\ files' = AfterUnlinks(files, split_files, env)
    /\ tts_pc' = IF settings.storymode THEN "story_end" ELSE "loop"
    /\ it' = IF settings.storymode THEN it ELSE it + 1
    /\ UNCHANGED <<length, last_clip_length, idx, idy, calls, rollback, result,
                   split_files, list_txt>>
    /\ UNCHANGED tts_inputs
    /\ UNCHANGED not_tts_vars

\* Lines 90 and 103-104: the comments are exhausted and run returns.
LoopExit ==
    /\ tts_pc = "loop"
    /\ it = NumComments
    /\ result' = Returned(length, idx)
    /\ tts_pc' = "done"
    /\ UNCHANGED <<length, last_clip_length, it, idx, idy, calls, rollback,
                   files, split_files, list_txt>>
    /\ UNCHANGED tts_inputs
    /\ UNCHANGED not_tts_vars

\* Lines 79-84: story mode, method 0, a post short enough is synthesized
\* in one call.
StoryWhole ==
    /\ tts_pc = "story"
    /\ settings.storymodemethod = 0
    /\ ~TooLong(reddit_object.thread_post.text)
    /\ call_tts(StoryFile, reddit_object.thread_post.parts[1])
    /\ files' = TtsWrites(files, StoryFile, reddit_object.thread_post.parts[1])
    /\ tts_pc' = "story_end"
    /\ UNCHANGED <<it, idx, idy, rollback, result, split_files, list_txt>>
    /\ UNCHANGED tts_inputs
    /\ UNCHANGED not_tts_vars

\* Lines 79-82 and 107-116: story mode, method 0, a post that is too long
\* enters split_post.
StorySplit ==
    /\ tts_pc = "story"
    /\ settings.storymodemethod = 0
    /\ TooLong(reddit_object.thread_post.text)
    /\ idy' = 0
    /\ split_files' = <<>>
    /\ files' = WriteFile(files, SilenceFile,
                          <<Segment(SilenceFile, settings.silence_duration)>>)
    /\ tts_pc' = "split"
    /\ UNCHANGED <<length, last_clip_length, it, idx, calls, rollback, result,
                   list_txt>>
    /\ UNCHANGED tts_inputs
    /\ UNCHANGED not_tts_vars

\* A loop over the elements of the post that enforces the budget as the
\* loop over the comments does.
StoryElementWithBudget ==
    /\ tts_pc = "story"
    /\ settings.storymodemethod = 1
    /\ it < Len(reddit_object.thread_post)
    /\ IF ShouldRollback(length, max_length, it)
       THEN /\ length' = length - last_clip_length
            /\ idx' = it - 1
            /\ rollback' = [happened |-> TRUE, amount |-> last_clip_length, at |-> it]
            /\ result' = Returned(length', idx')
            /\ tts_pc' = "done"
            /\ UNCHANGED <<last_clip_length, it, calls, files>>
       ELSE /\ idx' = it
            /\ call_tts(StoryElementFile(it), reddit_object.thread_post[it + 1])
            /\ files' = TtsWrites(files, StoryElementFile(it),
                                  reddit_object.thread_post[it + 1])
            /\ it' = it + 1
            /\ UNCHANGED <<tts_pc, rollback, result>>
    /\ UNCHANGED <<idy, split_files, list_txt>>
    /\ UNCHANGED tts_inputs
    /\ UNCHANGED not_tts_vars

\* Lines 85-87: story mode, method 1: the next element of the post is
\* synthesized; nothing is checked before.
StoryElement ==
    /\ tts_pc = "story"
    /\ settings.storymodemethod = 1
    /\ it < Len(reddit_object.thread_post)
    /\ idx' = it
    /\ call_tts(StoryElementFile(it), reddit_object.thread_post[it + 1])
    /\ files' = TtsWrites(files, StoryElementFile(it), reddit_object.thread_post[it + 1])
    /\ it' = it + 1
    /\ UNCHANGED <<tts_pc, idy, rollback, result, split_files, list_txt>>
    /\ UNCHANGED tts_inputs
    /\ UNCHANGED not_tts_vars

\* Lines 79-87 and 103-104: in story mode run returns after the post: after
\* its last element with method 1, at once with a method that is neither 0
\* nor 1.
StoryExit ==
    /\ \/ tts_pc = "story_end"
       \/ /\ tts_pc = "story"
          /\ settings.storymodemethod = 1
          /\ it = Len(reddit_object.thread_post)
       \/ /\ tts_pc = "story"
          /\ settings.storymodemethod \notin {0, 1}
    /\ result' = Returned(length, idx)
    /\ tts_pc' = "done"
    /\ UNCHANGED <<length, last_clip_length, it, idx, idy, calls, rollback,
                   files, split_files, list_txt>>
    /\ UNCHANGED tts_inputs
    /\ UNCHANGED not_tts_vars

\* A run of TTSEngine.run over the comments of a thread.
Init ==
    /\ tts_pc = "run"
    /\ InitEngine
    /\ SelOff
    /\ ChopOff
    /\ NormOff
    /\ ReOff

\* No chunk of a comment is blank: add_periods ends the body with a period
\* and every chunk holds the period it ends at, so that the skip of lines
\* 121-123 is taken in story mode only.
Next ==
    \/ RunTitle
    \/ LoopRollback
    \/ LoopDirect
    \/ LoopSplit
    \/ SplitSynthesize
    \/ SplitCleanup
    \/ LoopExit

Spec == Init /\ [][Next]_vars

\* A call of call_tts on its own, on an engine just constructed, for every
\* measurement of the clip.
InitCallTts ==
    /\ tts_pc = "call_tts"
    /\ reddit_object \in [title : AllClips, comments : {<<>>}, thread_post : {<<>>}]
    /\ max_length = DEFAULT_MAX_LENGTH
    /\ length = 0
    /\ last_clip_length \in {0, 7}
    /\ it = 0
    /\ idx = 0
    /\ idy = 0
    /\ calls = <<>>
    /\ rollback = NoRollback
    /\ result = NoReturn
    /\ settings = Settings(FALSE, 0, 1)
    /\ env = ReliableEnv
    /\ files = {}
    /\ split_files = <<>>
    /\ list_txt = <<>>
    /\ SelOff
    /\ ChopOff
    /\ NormOff
    /\ ReOff

CallTtsAlone ==
    /\ tts_pc = "call_tts"
    /\ call_tts(TitleFile, reddit_object.title)
    /\ files' = TtsWrites(files, TitleFile, reddit_object.title)
    /\ tts_pc' = "called"
    /\ UNCHANGED <<it, idx, idy, rollback, result, split_files, list_txt>>
    /\ UNCHANGED tts_inputs
    /\ UNCHANGED not_tts_vars

NextCallTts == CallTtsAlone

SpecCallTts == InitCallTts /\ [][NextCallTts]_vars

\* Bound of the elements of a post that is split beforehand.
MaxStoryElements == 4

\* A post of story mode, method 0: its text, which add_periods does not
\* rewrite, and the clips of the texts made of it.
Post(text, parts) == [text |-> text, parts |-> parts]
\* Two sentences of which one fits in max_chars characters.
TwoSentences ==
    Word(MaxChars - 2) \o <<".", " ">> \o Word(MaxChars - 2) \o <<".">>
\* Texts of max_chars characters, of one chunk and of two; texts whose last
\* chunk, or only chunk, is blank; and a text with no chunk.
Posts ==
    { Post(Word(MaxChars), <<c>>) : c \in DirectClips }
      \cup { Post(Word(MaxChars) \o <<".">>, <<Probed(5)>>),
             Post(TwoSentences, <<Probed(5), Probed(5)>>),
             Post(TwoSentences \o <<" ", " ", " ">>,
                  <<Probed(5), Probed(5), NoClip>>),
             Post([k \in 1..(MaxChars + 1) |-> " "], <<NoClip>>),
             Post([k \in 1..(MaxChars + 1) |-> "\n"], <<>>) }

\* The posts of story mode: one text with method 0, a list of texts with
\* method 1.
StoryPosts(storymodemethod) ==
    IF storymodemethod = 0 THEN Posts
    ELSE IF storymodemethod = 1
         THEN UNION { [1..n -> DirectClips] : n \in 0..MaxStoryElements }
    ELSE {<<>>}

\* A run of TTSEngine.run in story mode.
InitStory ==
    /\ tts_pc = "run"
    /\ settings \in { Settings(TRUE, m, 1) : m \in 0..2 }
    /\ reddit_object \in [title : TitleClips, comments : {<<>>},
                          thread_post : StoryPosts(settings.storymodemethod)]
    /\ max_length \in MaxLengths
    /\ length = 0
    /\ last_clip_length = 0
    /\ it = 0
    /\ idx = 0
    /\ idy = 0
    /\ calls = <<>>
    /\ rollback = NoRollback
    /\ result = NoReturn
    /\ env = ReliableEnv
    /\ files = {}
    /\ split_files = <<>>
    /\ list_txt = <<>>
    /\ SelOff
    /\ ChopOff
    /\ ReOff
    /\ NormOff

NextStory ==
    \/ RunTitle
    \/ StoryWhole
    \/ StorySplit
    \/ SplitSkipBlank
    \/ SplitSynthesize
    \/ SplitCleanup
    \/ StoryElement
    \/ StoryExit

SpecStory == InitStory /\ [][NextStory]_vars

\* Bounds of the texts split on their own: their length and the engine's
\* max_chars.
MaxTextLen == 5
MaxMaxChars == 3

\* The characters of the texts: a letter, a space, a period and a newline.
Chars == {"a", " ", ".", "\n"}
Texts == UNION { [1..n -> Chars] : n \in 0..MaxTextLen }
\* Lines 96-99: run calls split_post with a text longer than max_chars.
InitSplitText ==
    /\ re_pc = "call"
    /\ re_max_chars \in 1..MaxMaxChars
    /\ re_text \in {t \in Texts : Len(t) > re_max_chars}
    /\ re_split_text = <<>>
    /\ re_passed = <<>>
    /\ SelOff
    /\ TtsOff
    /\ ChopOff
    /\ NormOff

\* Lines 106-125: split_post splits the text and hands the chunks that are
\* not blank to call_tts.
SplitPostText ==
    /\ re_pc = "call"
    /\ re_split_text' = SplitText(re_text, re_max_chars)
    /\ re_passed' = PassedToTts(re_split_text')
    /\ re_pc' = "done"
    /\ UNCHANGED <<re_text, re_max_chars>>
    /\ UNCHANGED not_re_vars

NextSplitText == SplitPostText

SpecSplitText == InitSplitText /\ [][NextSplitText]_vars

\* Bounds of a run over one long comment: the chunks of its text and the
\* setting silence_duration.
MaxParts == 6
MaxSilence == 2

\* The clips of the chunks of a long comment, and a long comment of n
\* chunks.
PartClips == {Probed(0), Probed(2)}
LongComments ==
    UNION { { Comment(IF n = 1 THEN LongBody ELSE Paragraphs(n), parts) :
                parts \in [1..n -> PartClips] } : n \in 1..MaxParts }
Envs ==
    {ReliableEnv}
      \cup { Env(u, a, c) : u \in {"not_found", "os_error"}, a \in 1..MaxParts,
                            c \in {"stops", "fails"} }
      \cup { Env("ok", 0, "fails") }

\* A run of TTSEngine.run over one comment that is too long for one call,
\* for every environment of split_post.
InitSplit ==
    /\ tts_pc = "run"
    /\ reddit_object \in [title : {Probed(0)},
                          comments : { <<c>> : c \in LongComments },
                          thread_post : {<<>>}]
    /\ max_length = DEFAULT_MAX_LENGTH
    /\ length = 0
    /\ last_clip_length = 0
    /\ it = 0
    /\ idx = 0
    /\ idy = 0
    /\ calls = <<>>
    /\ rollback = NoRollback
    /\ result = NoReturn
    /\ settings \in { Settings(FALSE, 0, d) : d \in 1..MaxSilence }
    /\ env \in Envs
    /\ files = {}
    /\ split_files = <<>>
    /\ list_txt = <<>>
    /\ SelOff
    /\ ChopOff
    /\ NormOff
    /\ ReOff

NextSplit ==
    \/ RunTitle
    \/ LoopSplit
    \/ SplitSynthesize
    \/ SplitCleanup
    \/ LoopExit

SpecSplit == InitSplit /\ [][NextSplit]_vars

\* Bound of the comment bodies normalized on their own.
MaxBodyLen == 4

\* The characters of the bodies: letters, a period, a space, a newline and
\* a double quote.
BodyChars == Letters \cup {".", " ", "\n", "\""}
Bodies == UNION { [1..n -> BodyChars] : n \in 1..MaxBodyLen }
\* A comment body that add_periods is applied to, twice.
InitNormalize ==
    /\ norm_pc = "raw"
    /\ comment_body \in Bodies
    /\ body_once = <<>>
    /\ SelOff
    /\ TtsOff
    /\ ChopOff
    /\ ReOff

\* Lines 53-68: add_periods rewrites the body in place.
AddPeriods ==
    /\ norm_pc \in {"raw", "once"}
    /\ comment_body' = add_periods(comment_body)
    /\ body_once' = IF norm_pc = "raw" THEN comment_body' ELSE body_once
    /\ norm_pc' = IF norm_pc = "raw" THEN "once" ELSE "twice"
    /\ UNCHANGED not_norm_vars

NextNormalize == AddPeriods

SpecNormalize == InitNormalize /\ [][NextNormalize]_vars

(***************************************************************************)
(* The claims about TTSEngine                                              *)
(***************************************************************************)

RECURSIVE SumSeq(_)
SumSeq(s) == IF s = <<>> THEN 0 ELSE Head(s) + SumSeq(Tail(s))

InSeq(x, s) == \E k \in DOMAIN s : s[k] = x

\* The duration a call committed to the running total.
Committed(call) == IF call.clip_duration > 0 THEN call.clip_duration ELSE 0
DurationOfCalls(cs) == SumSeq([k \in 1..Len(cs) |-> Committed(cs[k])])
TitleDuration ==
    DurationOfCalls(SelectSeq(calls, LAMBDA c : c.filename.unit = "title"))
\* The sum of the durations of the clips of comment i, its chunks included.
CommentDuration(i) ==
    DurationOfCalls(SelectSeq(calls,
        LAMBDA c : c.filename.unit # "title" /\ c.filename.idx = i))
RECURSIVE CommentsDuration(_)
\* The sum of the durations of the comments 0..i.
CommentsDuration(i) ==
    IF i < 0 THEN 0 ELSE CommentDuration(i) + CommentsDuration(i - 1)
LastCall == calls[Len(calls)]
RunDone == tts_pc = "done"

\* C2: when run stops by rollback, the total it returns is the sum of the
\* durations of the title and of the comments 0 up to the returned index.
TotalIsOutputSetAfterRollback ==
    (RunDone /\ rollback.happened) =>
        result.length = TitleDuration + CommentsDuration(result.idx)

\* The scenario of C3: a title that adds nothing, four comments measured as
\* 5, 5, 5 and 40 seconds, and a maximum of 10.
ScenarioFiveFiveFiveForty ==
    /\ tts_pc \in {"run", "loop", "split", "done"}
    /\ ClipDuration(reddit_object.title) = 0
    /\ NumComments = 4
    /\ \A i \in 1..4 :
         reddit_object.comments[i].comment_body
           \in {ShortBody, add_periods(ShortBody)}
    /\ [i \in 1..4 |-> ClipDuration(reddit_object.comments[i].parts[1])]
         = <<5, 5, 5, 40>>
    /\ max_length = 10

\* C3 as stated: in the scenario run stops by rollback with total 10 and
\* index 1, and the 40-second comment is never synthesized.
ScenarioReturnsIndexOne ==
    (ScenarioFiveFiveFiveForty /\ RunDone) =>
        /\ rollback.happened
        /\ result.length = 10
        /\ result.idx = 1
        /\ \A k \in DOMAIN calls : calls[k].filename # CommentFile(3)

\* C3, amended: in the scenario run stops by rollback with total 10 and
\* index 2 (the index of the comment rolled back), and the 40-second comment
\* is never synthesized.
ScenarioReturnsIndexTwo ==
    /\ ScenarioFiveFiveFiveForty =>
         \A k \in DOMAIN calls : calls[k].filename # CommentFile(3)
    /\ (ScenarioFiveFiveFiveForty /\ RunDone) =>
         /\ rollback.happened
         /\ result.length = 10
         /\ result.idx = 2

ScenarioReturnsIndexTwoWitness ==
    /\ ScenarioFiveFiveFiveForty
    /\ RunDone
    /\ rollback.happened
    /\ InSeq(CommentFile(2), [k \in DOMAIN calls |-> calls[k].filename])

\* C4: the rollback subtracts the whole duration the most recently processed
\* comment added to the total, whether it was synthesized in one call or as
\* several chunks, and the index returned is the one before the iteration
\* that stopped.
RollbackUndoesLastComment ==
    rollback.happened =>
        /\ rollback.amount = CommentDuration(rollback.at - 1)
        /\ result.idx = rollback.at - 1

\* The clip whose duration a rollback subtracted belongs to comment i.
RolledBackClipOf(i) ==
    /\ rollback.happened
    /\ rollback.amount > 0
    /\ LastCall.filename.unit # "title"
    /\ LastCall.filename.idx = i

\* C5 as stated: no rollback subtracts the duration of comment 0 or of
\* comment 1.
FirstTwoNeverRolledBack ==
    ~RolledBackClipOf(0) /\ ~RolledBackClipOf(1)

\* Every chunk of comment i that is not blank has been synthesized, or the
\* comment in one call.
Synthesized(i) ==
    LET comment == reddit_object.comments[i + 1]
        chunks == SplitText(comment.comment_body, MaxChars)
    IN  IF TooLong(comment.comment_body)
        THEN \A j \in DOMAIN chunks :
               IsBlank(process_text(chunks[j]))
                 \/ InSeq(PartFile(i, j - 1),
                          [k \in DOMAIN calls |-> calls[k].filename])
        ELSE InSeq(CommentFile(i), [k \in DOMAIN calls |-> calls[k].filename])

\* C5, amended: the budget check is not applied to the comments 0 and 1:
\* both are synthesized whatever the total, a rollback happens no earlier
\* than the iteration of comment 2 and the index it returns is at least 1.
RollbackOnlyAfterFirstTwo ==
    /\ (tts_pc = "loop" /\ it >= 2) => Synthesized(0) /\ Synthesized(1)
    /\ rollback.happened =>
         /\ rollback.at >= 2
         /\ result.idx >= 1
         /\ Synthesized(0)
         /\ Synthesized(1)

\* The first two comments alone exceed the budget, both were synthesized and
\* the rollback subtracted the duration of comment 1.
RollbackOnlyAfterFirstTwoWitness ==
    /\ RolledBackClipOf(1)
    /\ rollback.at = 2
    /\ CommentDuration(0) + CommentDuration(1) > max_length

\* C6: the total run returns does not exceed the maximum.
TotalWithinMaximum ==
    RunDone => result.length <= max_length

\* C8: a call of call_tts that measures d > 0 adds d to the total and makes d
\* the last clip's duration; one that measures nothing leaves the total and
\* sets the last clip's duration to 0; so before a rollback the total is the
\* sum of the durations committed.
CallTtsCommitsMeasuredDuration ==
    /\ \A k \in DOMAIN calls :
         LET c == calls[k]
         IN  IF c.clip_duration > 0
             THEN /\ c.length_after = c.length_before + c.clip_duration
                  /\ c.last_clip_length_after = c.clip_duration
             ELSE /\ c.length_after = c.length_before
                  /\ c.last_clip_length_after = 0
    /\ (tts_pc \in {"loop", "split", "done"} /\ ~rollback.happened) =>
         /\ length = DurationOfCalls(calls)
         /\ length = LastCall.length_after
         /\ last_clip_length = LastCall.last_clip_length_after

\* Both cases have happened: a clip measured as 0 seconds after the total
\* had grown, and a clip with a duration after that.
CallTtsCommitsMeasuredDurationWitness ==
    /\ ~rollback.happened
    /\ \E k \in DOMAIN calls :
         /\ calls[k].clip_duration = 0
         /\ calls[k].length_before > 0
         /\ k < Len(calls)
    /\ LastCall.clip_duration > 0

\* C7 as stated: a tier is attempted exactly when the tier before it failed
\* or gave a duration that is not positive.
TiersFollowUnusableResults ==
    \A k \in DOMAIN calls :
        LET c == calls[k].clip
            t == calls[k].tiers
        IN  /\ InSeq("decode", t) <=> (~c.probe_ok \/ c.probe <= 0)
            /\ InSeq("estimate", t) <=>
                 (InSeq("decode", t) /\ (~c.decode_ok \/ c.decode <= 0))

\* C7, amended: the tiers are attempted in the order probe, decoding,
\* estimate, and a tier is attempted exactly when the tier before it raised
\* an error; a probe or a decoding that succeeds with a duration of 0 ends
\* the measurement with 0.
TiersFollowFailures ==
    \A k \in DOMAIN calls :
        LET c == calls[k].clip
            t == calls[k].tiers
        IN  /\ t \in {<<"probe">>, <<"probe", "decode">>,
                      <<"probe", "decode", "estimate">>}
            /\ InSeq("decode", t) <=> ~c.probe_ok
            /\ InSeq("estimate", t) <=> (~c.probe_ok /\ ~c.decode_ok)
            /\ (c.probe_ok /\ c.probe = 0) => calls[k].clip_duration = 0
            /\ (~c.probe_ok /\ c.decode_ok /\ c.decode = 0) =>
                 calls[k].clip_duration = 0
            /\ InSeq("estimate", t) =>
                 calls[k].clip_duration = EstimatedDuration(c.words)

\* A probe that succeeded and printed 0 was not followed by the decoding,
\* although the decoding would have given a duration.
TiersFollowFailuresWitness ==
    /\ tts_pc = "called"
    /\ LastCall.clip.probe_ok
    /\ LastCall.clip.probe = 0
    /\ LastCall.clip.decode_ok
    /\ LastCall.clip.decode > 0
    /\ LastCall.tiers = <<"probe">>
    /\ length = 0


(***************************************************************************)
(* The claims about split_post                                             *)
(***************************************************************************)

\* The chunks of the text split_post was called with.
Chunks == reddit_object.comments[1].parts
\* split_post has returned to run.
SplitReturned == tts_pc \in {"loop", "done"} /\ it = 1
\* split_post has handled every chunk.
SplitLoopOver == (tts_pc = "split" /\ idy = Len(Chunks)) \/ SplitReturned
\* The texts of the chunks, once add_periods has rewritten the comment.
ChunkTexts == SplitText(reddit_object.comments[1].comment_body, MaxChars)
AllSynthesized ==
    \A k \in DOMAIN ChunkTexts : ~IsBlank(process_text(ChunkTexts[k]))
\* The files the segments of a file come from, in order.
SourcesOf(name) ==
    [k \in DOMAIN Content(files, name) |-> Content(files, name)[k].file]
DurationOf(name) ==
    SumSeq([k \in DOMAIN Content(files, name) |-> Content(files, name)[k].duration])
ChunksDuration ==
    SumSeq([k \in DOMAIN Chunks |-> ClipDuration(Chunks[k])])
RECURSIVE Interleaved(_)
\* The names with silence.mp3 between each and the next.
Interleaved(names) ==
    IF Len(names) <= 1 THEN names
    ELSE <<Head(names), SilenceFile>> \o Interleaved(Tail(names))

\* C13 as stated: the file concatenated for k chunks is the k chunks in
\* order with a silence between each chunk and the next, k - 1 silences: its
\* duration is that of the chunks plus k - 1 times that of the silence.
ChunksInterleavedWithSilence ==
    (SplitLoopOver /\ AllSynthesized /\ Len(Chunks) >= 1) =>
        /\ Exists(files, CommentFile(0))
        /\ SourcesOf(CommentFile(0)) = Interleaved(split_files)
        /\ DurationOf(CommentFile(0))
             = ChunksDuration + (Len(Chunks) - 1) * settings.silence_duration

\* C13, amended: the list handed to the concatenation names the k chunks of
\* the text in order and then silence.mp3 once, after the last chunk and not
\* between the chunks; when every chunk was synthesized the file
\* concatenated is the k chunks in order followed by one silence, and its
\* duration is that of the chunks plus once that of the silence, also for
\* 6 chunks.
ChunksThenOneSilence ==
    /\ list_txt # <<>> =>
         /\ Len(list_txt) = Len(Chunks) + 1
         /\ \A k \in 1..Len(Chunks) : list_txt[k] = PartFile(0, k - 1)
         /\ list_txt[Len(Chunks) + 1] = SilenceFile
    /\ (SplitLoopOver /\ AllSynthesized /\ Len(Chunks) >= 1) =>
         /\ Exists(files, CommentFile(0))
         /\ SourcesOf(CommentFile(0)) = split_files \o <<SilenceFile>>
         /\ split_files = [k \in 1..Len(Chunks) |-> PartFile(0, k - 1)]
         /\ DurationOf(CommentFile(0)) = ChunksDuration + settings.silence_duration

\* Six chunks of 2 seconds, all synthesized, and a silence of 2 seconds: the file
\* concatenated lasts 6 * 2 + 2 seconds and not 6 * 2 + 5 * 2.
ChunksThenOneSilenceWitness ==
    /\ SplitReturned
    /\ Len(Chunks) = 6
    /\ AllSynthesized
    /\ settings.silence_duration = 2
    /\ Exists(files, CommentFile(0))
    /\ DurationOf(CommentFile(0)) = 14

\* C23: whenever split_post concatenates, every chunk file named in the
\* list it has written was already synthesized by this invocation; a chunk
\* skipped as blank, or not yet synthesized, is not listed.
ListedChunksAreSynthesized ==
    (tts_pc = "split" /\ list_txt # <<>>) =>
        \A k \in DOMAIN list_txt :
            list_txt[k] # SilenceFile =>
                /\ InSeq(list_txt[k], split_files)
                /\ Exists(files, list_txt[k])

\* C15 as stated: when split_post returns, the files of the chunks are
\* cleaned up: an os.unlink that raises is swallowed and every other file of
\* a chunk written by this call has been deleted.
SplitLeavesNoOtherPartFiles ==
    SplitReturned =>
        \A k \in DOMAIN split_files :
            (env.unlink = "ok" \/ k # env.at) => ~Exists(files, split_files[k])


\* C14: every text split_post hands to the engine is at most max_chars
\* characters long, for every text it is called with.
ChunksWithinMaxChars ==
    re_pc = "done" =>
        \A k \in DOMAIN re_passed : Len(re_passed[k]) <= re_max_chars

RECURSIVE Flatten(_)
\* The chunks one after the other.
Flatten(chunks) ==
    IF chunks = <<>> THEN <<>> ELSE Head(chunks) \o Flatten(Tail(chunks))

\* The characters of a text that are not whitespace, in order.
NonWhitespace(text) == SelectSeq(text, LAMBDA c : c \notin Whitespace)

\* C24: the splitter loses no text: the chunks it produces, in order, hold
\* every character of the text that is not whitespace, once each, also when
\* the text has more than max_chars characters without a period.
SplitterLosesNoText ==
    re_pc = "done" =>
        NonWhitespace(Flatten(re_split_text)) = NonWhitespace(re_text)


(***************************************************************************)
(* The claim about add_periods                                             *)
(***************************************************************************)

\* C17: normalization is idempotent: add_periods applied to a body that is
\* already the output of add_periods leaves it unchanged.
NormalizationIdempotent ==
    norm_pc = "twice" => comment_body = body_once


(***************************************************************************)
(* The claim about story mode                                              *)
(***************************************************************************)

StoryModeOne == settings.storymode /\ settings.storymodemethod = 1
\* Every element of the post up to the n-th has been synthesized, in the
\* order of the list, after the title.
ElementsSynthesized(n) ==
    /\ Len(calls) = 1 + n
    /\ calls[1].filename = TitleFile
    /\ \A k \in 1..n :
         /\ calls[k + 1].filename = StoryElementFile(k - 1)
         /\ calls[k + 1].clip = reddit_object.thread_post[k]

\* C20: in story mode with method 1 the budget is not enforced: every
\* element of the post is synthesized, in the order of the list, however far
\* the total exceeds the maximum, and no rollback is applied to the total.
StoryModeOneHasNoBudget ==
    (StoryModeOne /\ tts_pc # "run") =>
        /\ ~rollback.happened
        /\ tts_pc \in {"story", "done"}
        /\ tts_pc = "story" => ElementsSynthesized(it)
        /\ tts_pc = "done" =>
             /\ ElementsSynthesized(Len(reddit_object.thread_post))
             /\ result.returned
             /\ result.length = length
             /\ length = SumSeq([k \in DOMAIN calls |-> calls[k].clip_duration])

\* Four elements of 40 seconds and a maximum of 10: run has returned a total
\* of 160 seconds.
StoryModeOneHasNoBudgetWitness ==
    /\ StoryModeOne
    /\ tts_pc = "done"
    /\ max_length = 10
    /\ Len(reddit_object.thread_post) = 4
    /\ ElementsSynthesized(4)
    /\ result.length = 160

=============================================================================
